---- MODULE Spec2Model ----
(***************************************************************************)
(* Model of src/src/pyarrow_filter_expression.rs: the translation of a     *)
(* DataFusion filter Expr into a PyArrow compute expression                 *)
(* (TryFrom<&Expr> for PyArrowFilterExpression), with operator_to_py and    *)
(* extract_scalar_list.                                                     *)
(*                                                                          *)
(* Source expressions and target expressions are records (trees).  A       *)
(* translation returns [ok, val, err, log]: log is the sequence of builder  *)
(* and materializer calls the translation attempted, in program order.      *)
(* The Python side is an environment: the set `raising` of builder symbols  *)
(* whose call raises (every `?` after a call1 / call_method propagates      *)
(* that).  Python::import and getattr of the fixed names are taken to       *)
(* resolve.                                                                 *)
(***************************************************************************)
EXTENDS Integers, Sequences, FiniteSets, TLC

\* ------------------------------------------------------------------ bounds
\* integer literals and column values range over 0..MaxInt
MaxInt == 2
\* longest InList list
MaxListLen == 2
\* most builder symbols that raise in one environment
MaxRaising == 1

\* --------------------------------------------------------- source expressions
Scalar(ty, v) == [ty |-> ty, null |-> FALSE, v |-> v]
NullScalar(ty) == [ty |-> ty, null |-> TRUE, v |-> 0]

Col(name) == [k |-> "Column", name |-> name]
Lit(s) == [k |-> "Literal", scalar |-> s]
Bin(l, op, r) == [k |-> "BinaryExpr", left |-> l, op |-> op, right |-> r]
NotE(e) == [k |-> "Not", arg |-> e]
IsNullE(e) == [k |-> "IsNull", arg |-> e]
IsNotNullE(e) == [k |-> "IsNotNull", arg |-> e]
BetweenE(e, negated, low, high) ==
    [k |-> "Between", expr |-> e, negated |-> negated, low |-> low, high |-> high]
InListE(e, list, negated) ==
    [k |-> "InList", expr |-> e, list |-> list, negated |-> negated]
\* any Expr variant the match does not name (Like, Case, Cast, ...)
OtherE == [k |-> "Other", variant |-> "Like"]

\* Operator variants: the eight the match names, and others
SupportedOps == {"Eq", "NotEq", "Lt", "LtEq", "Gt", "GtEq", "And", "Or"}
ComparisonOps == {"Eq", "NotEq", "Lt", "LtEq", "Gt", "GtEq"}
OtherOps == {"Plus"}

\* ScalarValue kinds
ListKinds == {"Boolean", "Int8", "Int16", "Int32", "Int64", "UInt8", "UInt16",
              "UInt32", "UInt64", "Float32", "Float64", "Utf8"}

\* --------------------------------------------------------- target expressions
NoTarget == [f |-> "none"]
Field(name) == [f |-> "field", name |-> name]
ScalarT(s) == [f |-> "scalar", scalar |-> s]
CallT(fn, args) == [f |-> "call", fn |-> fn, args |-> args]
IsValidT(self) == [f |-> "is_valid", self |-> self]
IsNullT(self, flag) == [f |-> "is_null", self |-> self, nan_is_null |-> flag]
IsInT(self, values) == [f |-> "isin", self |-> self, values |-> values]

BuilderSymbols == {"field", "eq", "ne", "lt", "le", "gt", "ge", "and_", "or_",
                   "invert", "is_valid", "is_null", "isin"}

\* ------------------------------------------------------------------- results
NoError == [kind |-> "none", detail |-> [none |-> TRUE]]
Err(kind, detail) == [kind |-> kind, detail |-> detail]
Ok(val, log) == [ok |-> TRUE, val |-> val, err |-> NoError, log |-> log]
Fail(err, log) == [ok |-> FALSE, val |-> NoTarget, err |-> err, log |-> log]
NoResult == [ok |-> FALSE, val |-> NoTarget, err |-> NoError, log |-> <<>>]

\* A builder call `sym` that would return val: `...call1(..)?` / `...call_method(..)?`
Call(raising, sym, val, before) ==
    IF sym \in raising
    THEN Fail(Err("MaterializationError", [raised |-> sym]), Append(before, sym))
    ELSE Ok(val, Append(before, sym))

\* ------------------------------------------------------------- operator_to_py
\* faulty variant: the Or arm of the match is missing
py_op_name_no_or(operator) ==
    CASE operator = "Eq" -> "eq"
      [] operator = "NotEq" -> "ne"
      [] operator = "Lt" -> "lt"
      [] operator = "LtEq" -> "le"
      [] operator = "Gt" -> "gt"
      [] operator = "GtEq" -> "ge"
      [] operator = "And" -> "and_"
      [] OTHER -> "unsupported"

\* the match of operator_to_py: the attribute of Python's `operator` module
py_op_name(operator) ==
    CASE operator = "Eq" -> "eq"
      [] operator = "NotEq" -> "ne"
      [] operator = "Lt" -> "lt"
      [] operator = "LtEq" -> "le"
      [] operator = "Gt" -> "gt"
      [] operator = "GtEq" -> "ge"
      [] operator = "And" -> "and_"
      [] operator = "Or" -> "or_"
      [] OTHER -> "unsupported"

operator_to_py(operator) ==
    LET name == py_op_name(operator)
    IN IF name = "unsupported"
       THEN [ok |-> FALSE, sym |-> name,
             err |-> Err("UnsupportedOperator", [op |-> operator])]
       ELSE [ok |-> TRUE, sym |-> name, err |-> NoError]

\* -------------------------------------------------------- extract_scalar_list
\* the Python value `into_bound_py_any` makes of a scalar: the width is lost
PyType(ty) ==
    CASE ty = "Boolean" -> "bool"
      [] ty \in {"Int8", "Int16", "Int32", "Int64",
                 "UInt8", "UInt16", "UInt32", "UInt64"} -> "int"
      [] ty \in {"Float32", "Float64"} -> "float"
      [] OTHER -> "str"
PyValue(s) == [py |-> PyType(s.ty), v |-> s.v]

\* the closure mapped over the list: one element
scalar_list_item(expr) ==
    IF expr.k = "Literal"
    THEN IF expr.scalar.ty \in ListKinds /\ ~expr.scalar.null
         THEN [ok |-> TRUE, val |-> PyValue(expr.scalar), err |-> NoError]
         ELSE [ok |-> FALSE, val |-> PyValue(expr.scalar),
               err |-> Err("UnsupportedScalar", expr.scalar)]
    ELSE [ok |-> FALSE, val |-> [py |-> "none", v |-> 0],
          err |-> Err("NonLiteralListElement", expr)]

\* .iter().map(..).collect() into a Result: elements are taken in order and
\* the first Err ends the iteration
RECURSIVE collect_from(_, _, _)
collect_from(exprs, i, acc) ==
    IF i > Len(exprs)
    THEN [ok |-> TRUE, vals |-> acc, err |-> NoError, taken |-> Len(exprs)]
    ELSE LET it == scalar_list_item(exprs[i])
         IN IF it.ok
            THEN collect_from(exprs, i + 1, Append(acc, it.val))
            ELSE [ok |-> FALSE, vals |-> <<>>, err |-> it.err, taken |-> i]

\* faulty variant: elements that do not convert are skipped (a filter_map)
extract_scalar_list_skipping(exprs) ==
    collect_from(SelectSeq(exprs, LAMBDA e : scalar_list_item(e).ok), 1, <<>>)

extract_scalar_list(exprs) == collect_from(exprs, 1, <<>>)

\* ---------------------------------------------------------- scalar_to_pyarrow
\* crate::pyarrow_util::scalar_to_pyarrow, the scalar materializer: it fails on
\* a null scalar and on a kind it does not support
MaterializerKinds == ListKinds \cup {"Date32"}
scalar_to_pyarrow(scalar) ==
    IF scalar.null \/ scalar.ty \notin MaterializerKinds
    THEN Fail(Err("MaterializationError", scalar), <<"scalar_to_pyarrow">>)
    ELSE Ok(ScalarT(scalar), <<"scalar_to_pyarrow">>)

\* ------------------------------------------------------------------- try_from
\* faulty variant: NaN counts as null
nan_is_null_true == TRUE

\* Whether floating-point NaNs are considered null (let nan_is_null = false)
nan_is_null == FALSE

column_arm(raising, name) == Call(raising, "field", Field(name), <<>>)

\* faulty variant: a standalone literal goes through the list path's kinds
literal_arm_list_kinds(scalar) ==
    IF scalar.ty \in ListKinds /\ ~scalar.null
    THEN Ok(ScalarT(scalar), <<"scalar_to_pyarrow">>)
    ELSE Fail(Err("UnsupportedScalar", scalar), <<>>)

literal_arm(scalar) == scalar_to_pyarrow(scalar)

\* faulty variant: the operands are passed in the other order
binary_arm_swapped(raising, op, l, r) ==
    LET operator == operator_to_py(op)
    IN IF ~operator.ok THEN Fail(operator.err, <<>>)
       ELSE IF ~l.ok THEN Fail(l.err, l.log)
       ELSE IF ~r.ok THEN Fail(r.err, l.log \o r.log)
       ELSE Call(raising, operator.sym, CallT(operator.sym, <<r.val, l.val>>),
                 l.log \o r.log)

\* faulty variant: the operands are translated before the operator is looked up
binary_arm_operands_first(raising, op, l, r) ==
    LET operator == operator_to_py(op)
    IN IF ~l.ok THEN Fail(l.err, l.log)
       ELSE IF ~r.ok THEN Fail(r.err, l.log \o r.log)
       ELSE IF ~operator.ok THEN Fail(operator.err, l.log \o r.log)
       ELSE Call(raising, operator.sym, CallT(operator.sym, <<l.val, r.val>>),
                 l.log \o r.log)

\* l, r: the translations of left and right
binary_arm(raising, op, l, r) ==
    LET operator == operator_to_py(op)
    IN IF ~operator.ok THEN Fail(operator.err, <<>>)
       ELSE IF ~l.ok THEN Fail(l.err, l.log)
       ELSE IF ~r.ok THEN Fail(r.err, l.log \o r.log)
       ELSE Call(raising, operator.sym, CallT(operator.sym, <<l.val, r.val>>),
                 l.log \o r.log)

\* faulty variant: a failed operand falls back to the constant true
not_arm_fallback(raising, e) ==
    IF ~e.ok THEN Ok(ScalarT(Scalar("Boolean", 1)), e.log)
    ELSE Call(raising, "invert", CallT("invert", <<e.val>>), e.log)

not_arm(raising, e) ==
    IF ~e.ok THEN Fail(e.err, e.log)
    ELSE Call(raising, "invert", CallT("invert", <<e.val>>), e.log)

is_not_null_arm(raising, e) ==
    IF ~e.ok THEN Fail(e.err, e.log)
    ELSE Call(raising, "is_valid", IsValidT(e.val), e.log)

is_null_arm(raising, e) ==
    IF ~e.ok THEN Fail(e.err, e.log)
    ELSE Call(raising, "is_null", IsNullT(e.val, nan_is_null), e.log)

\* `if *negated { invert.call1((ret,))? } else { ret }` on a built ret
negate_if(raising, negated, ret) ==
    IF ~ret.ok THEN ret
    ELSE IF negated
         THEN Call(raising, "invert", CallT("invert", <<ret.val>>), ret.log)
         ELSE ret

\* faulty variant: the lower comparison has its operands the other way round
between_arm_low_swapped(raising, negated, e, low, high) ==
    IF ~e.ok THEN Fail(e.err, e.log)
    ELSE IF ~low.ok THEN Fail(low.err, e.log \o low.log)
    ELSE IF ~high.ok THEN Fail(high.err, e.log \o low.log \o high.log)
    ELSE LET log0 == e.log \o low.log \o high.log
             le1 == Call(raising, "le", CallT("le", <<e.val, low.val>>), log0)
             le2 == Call(raising, "le", CallT("le", <<e.val, high.val>>), le1.log)
             ret == IF ~le1.ok THEN le1
                    ELSE IF ~le2.ok THEN le2
                    ELSE Call(raising, "and_",
                              CallT("and_", <<le1.val, le2.val>>), le2.log)
         IN negate_if(raising, negated, ret)

\* e, low, high: the translations of expr, low and high
between_arm(raising, negated, e, low, high) ==
    IF ~e.ok THEN Fail(e.err, e.log)
    ELSE IF ~low.ok THEN Fail(low.err, e.log \o low.log)
    ELSE IF ~high.ok THEN Fail(high.err, e.log \o low.log \o high.log)
    ELSE LET log0 == e.log \o low.log \o high.log
             le1 == Call(raising, "le", CallT("le", <<low.val, e.val>>), log0)
             le2 == Call(raising, "le", CallT("le", <<e.val, high.val>>), le1.log)
             ret == IF ~le1.ok THEN le1
                    ELSE IF ~le2.ok THEN le2
                    ELSE Call(raising, "and_",
                              CallT("and_", <<le1.val, le2.val>>), le2.log)
         IN negate_if(raising, negated, ret)

\* faulty variant: the negated flag is ignored
in_list_arm_never_inverted(raising, negated, e, list) ==
    IF ~e.ok THEN Fail(e.err, e.log)
    ELSE LET scalars == extract_scalar_list(list)
         IN IF ~scalars.ok THEN Fail(scalars.err, e.log)
            ELSE Call(raising, "isin", IsInT(e.val, scalars.vals), e.log)

\* e: the translation of expr; list: the InList's list of Exprs
in_list_arm(raising, negated, e, list) ==
    IF ~e.ok THEN Fail(e.err, e.log)
    ELSE LET scalars == extract_scalar_list(list)
         IN IF ~scalars.ok THEN Fail(scalars.err, e.log)
            ELSE negate_if(raising, negated,
                           Call(raising, "isin", IsInT(e.val, scalars.vals), e.log))

other_arm(expr) == Fail(Err("UnsupportedExpression", expr), <<>>)

RECURSIVE try_from(_, _)
try_from(expr, raising) ==
    CASE expr.k = "Column" -> column_arm(raising, expr.name)
      [] expr.k = "Literal" -> literal_arm(expr.scalar)
      [] expr.k = "BinaryExpr" ->
            binary_arm(raising, expr.op, try_from(expr.left, raising),
                       try_from(expr.right, raising))
      [] expr.k = "Not" -> not_arm(raising, try_from(expr.arg, raising))
      [] expr.k = "IsNotNull" -> is_not_null_arm(raising, try_from(expr.arg, raising))
      [] expr.k = "IsNull" -> is_null_arm(raising, try_from(expr.arg, raising))
      [] expr.k = "Between" ->
            between_arm(raising, expr.negated, try_from(expr.expr, raising),
                        try_from(expr.low, raising), try_from(expr.high, raising))
      [] expr.k = "InList" ->
            in_list_arm(raising, expr.negated, try_from(expr.expr, raising), expr.list)
      [] OTHER -> other_arm(expr)

\* PyArrowFilterExpression::inner
inner(self) == self.val

\* ------------------------------------------------------- rows and evaluation
\* A column value or an evaluation result: null, NaN (Float64 only) or an
\* integer; booleans are 0 and 1.
Value(v) == [null |-> FALSE, nan |-> FALSE, v |-> v]
NullV == [null |-> TRUE, nan |-> FALSE, v |-> 0]
NaNV == [null |-> FALSE, nan |-> TRUE, v |-> 0]
TrueV == Value(1)
FalseV == Value(0)
Bool(b) == IF b THEN TrueV ELSE FalseV
ScalarValueOf(s) == IF s.null THEN NullV ELSE Value(s.v)

Compare(op, a, b) ==
    CASE op \in {"Eq", "eq"} -> a = b
      [] op \in {"NotEq", "ne"} -> a # b
      [] op \in {"Lt", "lt"} -> a < b
      [] op \in {"LtEq", "le"} -> a <= b
      [] op \in {"Gt", "gt"} -> a > b
      [] op \in {"GtEq", "ge"} -> a >= b

\* three-valued (Kleene) connectives and null-propagating comparison
Cmp3(op, a, b) == IF a.null \/ b.null THEN NullV ELSE Bool(Compare(op, a.v, b.v))
And3(a, b) ==
    IF (~a.null /\ a.v = 0) \/ (~b.null /\ b.v = 0) THEN FalseV
    ELSE IF a.null \/ b.null THEN NullV ELSE TrueV
Or3(a, b) ==
    IF (~a.null /\ a.v = 1) \/ (~b.null /\ b.v = 1) THEN TrueV
    ELSE IF a.null \/ b.null THEN NullV ELSE FalseV
Not3(a) == IF a.null THEN NullV ELSE Bool(a.v = 0)

SeqRange(q) == {q[i] : i \in 1..Len(q)}

\* DataFusion's evaluation of a filter Expr on a row (SQL three-valued logic)
RECURSIVE EvalSource(_, _)
EvalSource(e, row) ==
    CASE e.k = "Column" -> row[e.name]
      [] e.k = "Literal" -> ScalarValueOf(e.scalar)
      [] e.k = "BinaryExpr" ->
            LET l == EvalSource(e.left, row)
                r == EvalSource(e.right, row)
            IN CASE e.op = "And" -> And3(l, r)
                 [] e.op = "Or" -> Or3(l, r)
                 [] OTHER -> Cmp3(e.op, l, r)
      [] e.k = "Not" -> Not3(EvalSource(e.arg, row))
      [] e.k = "IsNull" -> Bool(EvalSource(e.arg, row).null)
      [] e.k = "IsNotNull" -> Bool(~EvalSource(e.arg, row).null)
      [] e.k = "Between" ->
            LET v == EvalSource(e.expr, row)
                inside == And3(Cmp3("GtEq", v, EvalSource(e.low, row)),
                               Cmp3("LtEq", v, EvalSource(e.high, row)))
            IN IF e.negated THEN Not3(inside) ELSE inside
      [] e.k = "InList" ->
            LET v == EvalSource(e.expr, row)
                items == {EvalSource(e.list[i], row) : i \in 1..Len(e.list)}
                inside == IF v.null THEN NullV
                          ELSE IF \E it \in items : ~it.null /\ it.v = v.v THEN TrueV
                          ELSE IF \E it \in items : it.null THEN NullV
                          ELSE FalseV
            IN IF e.negated THEN Not3(inside) ELSE inside

\* pyarrow.compute's evaluation of an Expression on a row: the comparison
\* kernels and invert propagate null, and_/or_ are and_kleene/or_kleene,
\* is_valid, is_null and is_in never return null
RECURSIVE EvalTarget(_, _)
EvalTarget(t, row) ==
    CASE t.f = "field" -> row[t.name]
      [] t.f = "scalar" -> ScalarValueOf(t.scalar)
      [] t.f = "call" ->
            CASE t.fn = "invert" -> Not3(EvalTarget(t.args[1], row))
              [] t.fn = "and_" ->
                    And3(EvalTarget(t.args[1], row), EvalTarget(t.args[2], row))
              [] t.fn = "or_" ->
                    Or3(EvalTarget(t.args[1], row), EvalTarget(t.args[2], row))
              [] OTHER ->
                    Cmp3(t.fn, EvalTarget(t.args[1], row), EvalTarget(t.args[2], row))
      [] t.f = "is_valid" -> Bool(~EvalTarget(t.self, row).null)
      [] t.f = "is_null" ->
            LET v == EvalTarget(t.self, row)
            IN Bool(v.null \/ (t.nan_is_null /\ v.nan))
      [] t.f = "isin" ->
            LET v == EvalTarget(t.self, row)
            IN Bool(~v.null /\ ~v.nan /\ \E i \in 1..Len(t.values) : t.values[i].v = v.v)

\* a scan keeps the rows on which the filter is true
Accepts(t, row) == EvalTarget(t, row) = TrueV

\* ------------------------------------------------------------ the inputs
SeqsUpTo(S, n) == UNION {[1..m -> S] : m \in 0..n}

IntLits == {Lit(Scalar("Int32", v)) : v \in 0..MaxInt}
NullIntLit == Lit(NullScalar("Int32"))
DateLit == Lit(Scalar("Date32", 1))
UnionLit == Lit(Scalar("Union", 1))
ValueLeaves == {Col("x"), NullIntLit} \cup IntLits
BoolLeaves == {Col("b"), Lit(Scalar("Boolean", 1)), Lit(Scalar("Boolean", 0)),
               Lit(NullScalar("Boolean"))}
Leaves == ValueLeaves \cup BoolLeaves \cup {Col("f"), DateLit, UnionLit, OtherE}

Comparisons == {Bin(l, op, r) : l \in ValueLeaves, op \in ComparisonOps, r \in ValueLeaves}
FailingLeaves == {Col("x"), Lit(Scalar("Int32", 1)), NullIntLit, OtherE}
OtherBins == {Bin(l, op, r) : l \in FailingLeaves, op \in OtherOps, r \in FailingLeaves}
NullTests == {IsNullE(e) : e \in ValueLeaves \cup {Col("f")}}
                \cup {IsNotNullE(e) : e \in ValueLeaves \cup {Col("f")}}
Betweens ==
    {BetweenE(e, n, lo, hi) : e \in ValueLeaves, n \in BOOLEAN,
                              lo \in ValueLeaves, hi \in ValueLeaves}
    \cup {BetweenE(e, n, lo, hi) : e \in FailingLeaves, n \in BOOLEAN,
                                   lo \in FailingLeaves, hi \in FailingLeaves}
GoodLists == SeqsUpTo(IntLits, MaxListLen)
BadLists == SeqsUpTo({Lit(Scalar("Int32", 0)), Col("x"), NullIntLit, DateLit}, MaxListLen)
InLists == {InListE(e, l, n) : e \in FailingLeaves, l \in GoodLists \cup BadLists,
                               n \in BOOLEAN}
Atoms == Comparisons \cup OtherBins \cup NullTests \cup Betweens \cup InLists
Nots == {NotE(a) : a \in Atoms \cup BoolLeaves \cup {OtherE}}
Small == BoolLeaves \cup {IsNullE(Col("x")), Bin(Col("x"), "Gt", Lit(Scalar("Int32", 1))),
                          InListE(Col("x"), <<Lit(Scalar("Int32", 1))>>, TRUE),
                          Bin(Col("x"), "Plus", Lit(Scalar("Int32", 1))), OtherE}
AndOrs == {Bin(l, op, r) : l \in Small, op \in {"And", "Or"}, r \in Small}
Nested == {NotE(c) : c \in AndOrs} \cup {IsNullE(NotE(c)) : c \in AndOrs}
Exprs == Leaves \cup Atoms \cup Nots \cup AndOrs \cup Nested

\* the columns an expression reads
RECURSIVE Columns(_)
Columns(e) ==
    CASE e.k = "Column" -> {e.name}
      [] e.k = "BinaryExpr" -> Columns(e.left) \cup Columns(e.right)
      [] e.k \in {"Not", "IsNull", "IsNotNull"} -> Columns(e.arg)
      [] e.k = "Between" -> Columns(e.expr) \cup Columns(e.low) \cup Columns(e.high)
      [] e.k = "InList" ->
            Columns(e.expr) \cup UNION {Columns(e.list[i]) : i \in 1..Len(e.list)}
      [] OTHER -> {}

ColumnValues(c) ==
    CASE c = "x" -> {NullV} \cup {Value(v) : v \in 0..MaxInt}
      [] c = "b" -> {NullV, TrueV, FalseV}
      [] c = "f" -> {NullV, NaNV, Value(0)}
DefaultRow == [x |-> Value(0), b |-> Value(0), f |-> Value(0)]
\* the rows that differ in the columns e reads
RowsFor(e) ==
    {r \in [x : ColumnValues("x"), b : ColumnValues("b"), f : ColumnValues("f")] :
        \A c \in {"x", "b", "f"} \ Columns(e) : r[c] = DefaultRow[c]}

\* the builder environments that differ for e: those in which some of the
\* symbols its translation calls raise
EnvsFor(e) ==
    {R \in SUBSET (SeqRange(try_from(e, {}).log) \cap BuilderSymbols) :
        Cardinality(R) <= MaxRaising}

\* ------------------------------------------------------------ state machine
VARIABLES expr, row, raising, pc, result, filter
vars == <<expr, row, raising, pc, result, filter>>

Init ==
    /\ expr \in Exprs
    /\ \/ raising = {} /\ row \in RowsFor(expr)
       \/ raising \in EnvsFor(expr) /\ row = DefaultRow
    /\ pc = "start"
    /\ result = NoResult
    /\ filter = NoTarget

\* PyArrowFilterExpression::try_from(expr)
TryFrom ==
    /\ pc = "start"
    /\ result' = try_from(expr, raising)
    /\ pc' = "translated"
    /\ UNCHANGED <<expr, row, raising, filter>>

\* the caller takes the Python object of a successful translation: inner()
Inner ==
    /\ pc = "translated"
    /\ result.ok
    /\ filter' = inner(result)
    /\ pc' = "pushed"
    /\ UNCHANGED <<expr, row, raising, result>>

Next == TryFrom \/ Inner

Spec == Init /\ [][Next]_vars

\* =================================================================== claims
Translated == pc # "start"
Left == try_from(expr.left, raising)
Right == try_from(expr.right, raising)
Arg == try_from(expr.arg, raising)
Tested == try_from(expr.expr, raising)
Low == try_from(expr.low, raising)
High == try_from(expr.high, raising)

\* an expression built only from the nodes the translator names
RECURSIVE Supported(_)
Supported(e) ==
    CASE e.k \in {"Column", "Literal"} -> TRUE
      [] e.k = "BinaryExpr" ->
            e.op \in SupportedOps /\ Supported(e.left) /\ Supported(e.right)
      [] e.k \in {"Not", "IsNull", "IsNotNull"} -> Supported(e.arg)
      [] e.k = "Between" -> Supported(e.expr) /\ Supported(e.low) /\ Supported(e.high)
      [] e.k = "InList" ->
            Supported(e.expr) /\ \A i \in 1..Len(e.list) : Supported(e.list[i])
      [] OTHER -> FALSE

\* ----------------------------------------------------------------------- C1
\* C1: for every expression built only from supported nodes that translates,
\* and every row, the source evaluation of the expression and the target
\* evaluation of its translation give the same result in {true, false, null}.
C1_RoundTrip ==
    (Translated /\ Supported(expr) /\ result.ok)
        => EvalSource(expr, row) = EvalTarget(result.val, row)

\* ----------------------------------------------------------------------- C2
BetweenBase ==
    CallT("and_", <<CallT("le", <<Low.val, Tested.val>>),
                    CallT("le", <<Tested.val, High.val>>)>>)
BetweenShape ==
    result.val = IF expr.negated THEN CallT("invert", <<BetweenBase>>) ELSE BetweenBase
\* low <= v: both values are there and ordered
LeRow(a, b) ==
    LET va == EvalSource(a, row)
        vb == EvalSource(b, row)
    IN ~va.null /\ ~vb.null /\ va.v <= vb.v
LtRow(a, b) ==
    LET va == EvalSource(a, row)
        vb == EvalSource(b, row)
    IN ~va.null /\ ~vb.null /\ va.v < vb.v
InRange == LeRow(expr.low, expr.expr) /\ LeRow(expr.expr, expr.high)

\* C2 as stated: the translation of Between is and_(le(low, v), le(v, high)),
\* inverted iff negated; not negated it accepts exactly the rows where
\* low <= v <= high, negated exactly the complement of that set of rows.
C2_BetweenAsStated ==
    (Translated /\ expr.k = "Between" /\ result.ok)
        => /\ BetweenShape
           /\ Accepts(result.val, row) <=> (IF expr.negated THEN ~InRange ELSE InRange)

\* C2 amended: same shape; not negated it accepts exactly the rows where
\* low <= v <= high; negated it accepts exactly the rows where v < low or
\* high < v (each between non-null values), so a row on which the range test
\* is null is accepted by neither form.
C2_Between ==
    (Translated /\ expr.k = "Between" /\ result.ok)
        => /\ BetweenShape
           /\ ~expr.negated => (Accepts(result.val, row) <=> InRange)
           /\ expr.negated =>
                (Accepts(result.val, row)
                    <=> (LtRow(expr.expr, expr.low) \/ LtRow(expr.high, expr.expr)))
           /\ (~InRange /\ ~LtRow(expr.expr, expr.low) /\ ~LtRow(expr.high, expr.expr))
                => EvalTarget(result.val, row) = NullV

\* a negated Between over the column, translated, on a row with a null column:
\* neither accepted nor in the range
C2_Witness ==
    /\ Translated /\ expr.k = "Between" /\ expr.negated /\ result.ok
    /\ expr.expr = Col("x") /\ row.x = NullV
    /\ ~Accepts(result.val, row)

\* ----------------------------------------------------------------------- C3
ListValues(list) == [i \in 1..Len(list) |-> [py |-> "int", v |-> list[i].scalar.v]]
IsInBase == IsInT(Tested.val, ListValues(expr.list))
InTheList ==
    LET v == EvalSource(expr.expr, row)
    IN ~v.null /\ \E i \in 1..Len(expr.list) : expr.list[i].scalar.v = v.v
Permuted(list) ==
    {[i \in 1..Len(list) |-> list[p[i]]] : p \in Permutations(1..Len(list))}

\* C3: the translation of InList over supported literals is
\* translate(v).isin(values), inverted iff negated; it accepts the rows with v
\* in the list iff not negated and the complement iff negated; permuting the
\* list does not change which rows are accepted.
C3_InList ==
    (Translated /\ expr.k = "InList" /\ result.ok)
        => /\ result.val = IF expr.negated THEN CallT("invert", <<IsInBase>>)
                           ELSE IsInBase
           /\ Accepts(result.val, row) <=> (InTheList # expr.negated)
           /\ \A l \in Permuted(expr.list) :
                LET other == try_from(InListE(expr.expr, l, expr.negated), raising)
                IN other.ok /\ (Accepts(other.val, row) <=> Accepts(result.val, row))

\* a negated InList over two different literals, translated, on a row whose
\* column is null: accepted, as the complement of the list's rows
C3_Witness ==
    /\ Translated /\ expr.k = "InList" /\ expr.negated /\ result.ok
    /\ Len(expr.list) = 2 /\ expr.list[1] # expr.list[2]
    /\ expr.expr = Col("x") /\ row.x = NullV
    /\ Accepts(result.val, row)

\* ----------------------------------------------------------------------- C4
EightOps == {"Eq", "NotEq", "Lt", "LtEq", "Gt", "GtEq", "And", "Or"}
\* the builder symbol the claims give each of the eight operators
SymbolOf(op) ==
    CASE op = "Eq" -> "eq" [] op = "NotEq" -> "ne" [] op = "Lt" -> "lt"
      [] op = "LtEq" -> "le" [] op = "Gt" -> "gt" [] op = "GtEq" -> "ge"
      [] op = "And" -> "and_" [] op = "Or" -> "or_"

NothingBuilt == ~result.ok /\ result.val = NoTarget /\ result.log = <<>>
RejectsOperator ==
    NothingBuilt /\ result.err = Err("UnsupportedOperator", [op |-> expr.op])

\* C4 as stated: a BinaryExpr with one of the eight operators translates
\* whenever both operands translate; with any other operator it fails with
\* the unsupported-operator error, translates no operand and makes no builder
\* call.
C4_TotalityAsStated ==
    (Translated /\ expr.k = "BinaryExpr")
        => /\ (expr.op \in EightOps /\ Left.ok /\ Right.ok) => result.ok
           /\ expr.op \notin EightOps => RejectsOperator

\* C4 amended: a BinaryExpr with one of the eight operators translates
\* whenever both operands translate and the builder call of the operator does
\* not raise (when it raises, the call fails with that error); with any other
\* operator it fails with the unsupported-operator error, translates no
\* operand and makes no builder call.
C4_Totality ==
    (Translated /\ expr.k = "BinaryExpr")
        => /\ (expr.op \in EightOps /\ Left.ok /\ Right.ok)
                => (result.ok <=> SymbolOf(expr.op) \notin raising)
           /\ (expr.op \in EightOps /\ Left.ok /\ Right.ok /\ ~result.ok)
                => result.err.kind = "MaterializationError"
           /\ expr.op \notin EightOps => RejectsOperator

\* an Or of two operands that translate, translated
C4_Witness ==
    /\ Translated /\ expr.k = "BinaryExpr" /\ expr.op = "Or"
    /\ Left.ok /\ Right.ok /\ result.ok

\* ----------------------------------------------------------------------- C5
TwelveKinds == {"Boolean", "Int8", "Int16", "Int32", "Int64", "UInt8", "UInt16",
                "UInt32", "UInt64", "Float32", "Float64", "Utf8"}
BadItem(e) == e.k # "Literal" \/ e.scalar.null \/ e.scalar.ty \notin TwelveKinds
ItemError(e) ==
    IF e.k # "Literal" THEN Err("NonLiteralListElement", e)
    ELSE Err("UnsupportedScalar", e.scalar)
HasBadItem == \E i \in 1..Len(expr.list) : BadItem(expr.list[i])
FirstBad ==
    CHOOSE i \in 1..Len(expr.list) :
        BadItem(expr.list[i]) /\ \A j \in 1..(i - 1) : ~BadItem(expr.list[j])

\* C5 as stated: an InList with an element that is no Literal, or a Literal
\* of a null or unsupported scalar, fails with that element's error
\* (NonLiteralListElement, UnsupportedScalar) and returns no target expression.
C5_AtomicListAsStated ==
    (Translated /\ expr.k = "InList" /\ HasBadItem)
        => /\ ~result.ok /\ result.val = NoTarget
           /\ \E i \in 1..Len(expr.list) :
                BadItem(expr.list[i]) /\ result.err = ItemError(expr.list[i])

\* C5 amended: such an InList fails and returns no target expression, however
\* many earlier elements were valid; the error is that of the first offending
\* element in list order when the tested expression translates, and the tested
\* expression's own error otherwise.
C5_AtomicList ==
    (Translated /\ expr.k = "InList" /\ HasBadItem)
        => /\ ~result.ok /\ result.val = NoTarget
           /\ Tested.ok => result.err = ItemError(expr.list[FirstBad])
           /\ ~Tested.ok => result.err = Tested.err

\* a list whose first element is valid and whose second is not, under a
\* tested expression that translates: the call has failed
C5_Witness ==
    /\ Translated /\ expr.k = "InList" /\ Tested.ok
    /\ Len(expr.list) = 2 /\ ~BadItem(expr.list[1]) /\ BadItem(expr.list[2])
    /\ ~result.ok

\* ----------------------------------------------------------------------- C6
\* the nodes try_from is called on
RECURSIVE Nodes(_)
Nodes(e) ==
    {e} \cup
    CASE e.k = "BinaryExpr" -> Nodes(e.left) \cup Nodes(e.right)
      [] e.k \in {"Not", "IsNull", "IsNotNull"} -> Nodes(e.arg)
      [] e.k = "Between" -> Nodes(e.expr) \cup Nodes(e.low) \cup Nodes(e.high)
      [] e.k = "InList" -> Nodes(e.expr)
      [] OTHER -> {}

\* the node's own step fails: an unsupported variant or operator, a bad list
\* element, a materializer error or a builder call that raises
OwnFailure(n) ==
    CASE n.k = "Column" -> "field" \in raising
      [] n.k = "Literal" ->
            n.scalar.null \/ n.scalar.ty \notin (TwelveKinds \cup {"Date32"})
      [] n.k = "BinaryExpr" -> n.op \notin EightOps \/ SymbolOf(n.op) \in raising
      [] n.k = "Not" -> "invert" \in raising
      [] n.k = "IsNull" -> "is_null" \in raising
      [] n.k = "IsNotNull" -> "is_valid" \in raising
      [] n.k = "Between" ->
            {"le", "and_"} \cap raising # {} \/ (n.negated /\ "invert" \in raising)
      [] n.k = "InList" ->
            \/ \E i \in 1..Len(n.list) : BadItem(n.list[i])
            \/ "isin" \in raising
            \/ n.negated /\ "invert" \in raising
      [] OTHER -> TRUE

\* C6: if any node of the tree fails, the call returns an error and no
\* target expression (none is handed on either); it returns a target
\* expression only when every node translated.
C6_AllOrNothing ==
    Translated
        => /\ result.ok <=> (\A n \in Nodes(expr) : ~OwnFailure(n))
           /\ result.ok <=> (\A n \in Nodes(expr) : try_from(n, raising).ok)
           /\ ~result.ok => (result.val = NoTarget /\ result.err # NoError
                                /\ filter = NoTarget)
           /\ result.ok => (result.val # NoTarget /\ result.err = NoError)

\* a tree three levels deep whose only failing node is a leaf: the call failed
C6_Witness ==
    /\ Translated /\ expr.k = "Not" /\ expr.arg.k = "BinaryExpr"
    /\ ~OwnFailure(expr) /\ ~OwnFailure(expr.arg) /\ ~OwnFailure(expr.arg.left)
    /\ OwnFailure(expr.arg.right)
    /\ ~result.ok

\* ----------------------------------------------------------------------- C7
\* C7: a standalone Literal fails iff its scalar is null or of a kind the
\* materializer does not support, and otherwise returns scalar_to_target(value).
C7_Literal ==
    (Translated /\ expr.k = "Literal")
        => /\ ~result.ok <=> (expr.scalar.null \/ expr.scalar.ty \notin MaterializerKinds)
           /\ result.ok => result.val = ScalarT(expr.scalar)
           /\ result = scalar_to_pyarrow(expr.scalar)

\* a Date32 literal, which the list path refuses, translated on its own
C7_Witness ==
    /\ Translated /\ expr.k = "Literal" /\ expr.scalar.ty = "Date32" /\ result.ok

\* ----------------------------------------------------------------------- C8
\* every is_null node of a target expression
RECURSIVE IsNullNodes(_)
IsNullNodes(t) ==
    CASE t.f = "call" -> UNION {IsNullNodes(t.args[i]) : i \in 1..Len(t.args)}
      [] t.f \in {"is_valid", "isin"} -> IsNullNodes(t.self)
      [] t.f = "is_null" -> {t} \cup IsNullNodes(t.self)
      [] OTHER -> {}

\* C8: IsNull(e) translates to translate(e).is_null(nan_is_null = false),
\* the flag always false, IsNotNull(e) to translate(e).is_valid() and Not(e)
\* to invert(translate(e)); so the translation of Not(IsNull(Column(x)))
\* agrees on every row with field(x).is_valid(), the translation of
\* IsNotNull(Column(x)).
C8_NullPredicates ==
    (Translated /\ result.ok)
        => /\ expr.k = "IsNull" => result.val = IsNullT(Arg.val, FALSE)
           /\ expr.k = "IsNotNull" => result.val = IsValidT(Arg.val)
           /\ expr.k = "Not" => result.val = CallT("invert", <<Arg.val>>)
           /\ \A t \in IsNullNodes(result.val) : t.nan_is_null = FALSE
           /\ (expr.k = "Not" /\ expr.arg.k = "IsNull" /\ expr.arg.arg.k = "Column")
                => LET valid == try_from(IsNotNullE(expr.arg.arg), raising)
                   IN /\ EvalTarget(result.val, row)
                            = EvalTarget(IsValidT(Field(expr.arg.arg.name)), row)
                      /\ valid.ok => valid.val = IsValidT(Field(expr.arg.arg.name))

\* Not(IsNull(Column(f))) translated, on a row where f is NaN: accepted, as
\* is_valid accepts it
C8_Witness ==
    /\ Translated /\ result.ok
    /\ expr = NotE(IsNullE(Col("f"))) /\ row.f = NaNV
    /\ Accepts(result.val, row)

\* ----------------------------------------------------------------------- C9
\* C9: the translation of BinaryExpr(l, op, r) is the builder symbol of op
\* (Eq eq, NotEq ne, Lt lt, LtEq le, Gt gt, GtEq ge, And and_, Or or_)
\* applied to translate(l), translate(r) in that order; Column > Literal(n)
\* is true on a row with the column at n + 1 and false with it at n.
C9_OperatorMapping ==
    (Translated /\ expr.k = "BinaryExpr" /\ result.ok)
        => /\ expr.op \in EightOps
           /\ result.val = CallT(SymbolOf(expr.op), <<Left.val, Right.val>>)
           /\ (expr.op = "Gt" /\ expr.left = Col("x") /\ expr.right.k = "Literal")
                => /\ row.x = Value(expr.right.scalar.v + 1) => Accepts(result.val, row)
                   /\ row.x = Value(expr.right.scalar.v)
                        => EvalTarget(result.val, row) = FalseV

\* Column(x) > Literal(1) translated, on the row with x = 2: accepted
C9_Witness ==
    /\ Translated /\ result.ok
    /\ expr = Bin(Col("x"), "Gt", Lit(Scalar("Int32", 1)))
    /\ row.x = Value(2)
    /\ Accepts(result.val, row)

\* ---------------------------------------------------------------------- C10
FailsAs(r, log) == ~result.ok /\ result.err = r.err /\ result.log = log

\* C10: the error returned is that of the first failing step and no later
\* step is performed.  BinaryExpr: operator lookup, left, right.  Between:
\* tested expression, low, high.  InList: tested expression, then the first
\* offending list element in list order.
C10_ErrorPrecedence ==
    Translated
        => /\ expr.k = "BinaryExpr" =>
                /\ expr.op \notin EightOps => RejectsOperator
                /\ (expr.op \in EightOps /\ ~Left.ok) => FailsAs(Left, Left.log)
                /\ (expr.op \in EightOps /\ Left.ok /\ ~Right.ok)
                        => FailsAs(Right, Left.log \o Right.log)
           /\ expr.k = "Between" =>
                /\ ~Tested.ok => FailsAs(Tested, Tested.log)
                /\ (Tested.ok /\ ~Low.ok) => FailsAs(Low, Tested.log \o Low.log)
                /\ (Tested.ok /\ Low.ok /\ ~High.ok)
                        => FailsAs(High, Tested.log \o Low.log \o High.log)
           /\ expr.k = "InList" =>
                /\ ~Tested.ok => FailsAs(Tested, Tested.log)
                /\ (Tested.ok /\ HasBadItem)
                        => /\ ~result.ok
                           /\ result.err = ItemError(expr.list[FirstBad])
                           /\ result.log = Tested.log

\* an unsupported operator over two operands that both fail: the operator's
\* error is the one returned
C10_Witness ==
    /\ Translated /\ expr.k = "BinaryExpr" /\ expr.op \notin EightOps
    /\ ~Left.ok /\ ~Right.ok /\ Left.err # Right.err
    /\ result.err.kind = "UnsupportedOperator"

====
